---- MODULE Spec2Model ----
(***************************************************************************)
(* Country comparison page (Trading Economics), script.js v2.4.            *)
(*                                                                         *)
(* The normalisation / formatting / comparison pipeline of the page:       *)
(*   extractValue -> normalizeValue -> formatNumber / calculateDifference  *)
(* and the page around it: window.onload, the two dropdowns, the Compare   *)
(* click (compareCountries), its two fetches and its continuation.         *)
(*                                                                         *)
(* JavaScript values are modelled as tagged records.  A JavaScript number  *)
(* is modelled as an exact decimal: a sign and a magnitude written as a    *)
(* little-endian sequence of base-1000 limbs counting thousandths, so      *)
(* <<720, 852, 1>> is 1852.720 and <<100>> is 0.1.  Multiplying by 10^3k   *)
(* is a shift by k limbs.  The binary rounding of IEEE doubles is not      *)
(* modelled; the sampled inputs have no exact rounding ties.               *)
(***************************************************************************)
EXTENDS Integers, Sequences, FiniteSets, TLC

\* pc, args, ret: a call of one function of the pipeline, its arguments and
\* what it returned.  The others are the state of the page: whether
\* window.onload has run, the values of the two dropdowns, the isLoading
\* flag, the content of the results and timestamp containers, the last
\* alert shown, the number of Compare clicks, the invocations of
\* compareCountries that went past the guard.
VARIABLES pc, args, ret,
          loaded, country1Select, country2Select, isLoading,
          resultsContainer, timestampContainer, alerted, clicks, calls

call == <<pc, args, ret>>

page == <<loaded, country1Select, country2Select, isLoading,
          resultsContainer, timestampContainer, alerted, clicks, calls>>

vars == <<pc, args, ret,
          loaded, country1Select, country2Select, isLoading,
          resultsContainer, timestampContainer, alerted, clicks, calls>>

\* Most Compare clicks of a behaviour.
MaxClicks == 3

(***************************************************************************)
(* Bounds of the model                                                     *)
(***************************************************************************)
\* Longest magnitude of a sampled raw number, in base-1000 limbs.
MaxLimbs == 5

\* Limb values the sampled raw numbers are built from.
LimbDigits == {0, 1, 100, 101, 999}

(***************************************************************************)
(* JavaScript values                                                       *)
(***************************************************************************)
Num(neg, mag) == [t |-> "number", neg |-> neg, mag |-> mag]
Str(s) == [t |-> "string", s |-> s]
Null == [t |-> "null"]
Undefined == [t |-> "undefined"]
Bool(b) == [t |-> "boolean", b |-> b]
NA == Str("N/A")

\* A nested JSON object {} in a value field
EmptyObject == [t |-> "object"]

typeof(v) == v.t

Zero == Num(FALSE, <<>>)

\* Canonical magnitudes: no most significant zero limb.
Mags ==
    {m \in UNION {[1..n -> LimbDigits] : n \in 0..MaxLimbs} :
        m = <<>> \/ m[Len(m)] # 0}

Numbers == {Num(FALSE, m) : m \in Mags} \cup {Num(TRUE, m) : m \in Mags \ {<<>>}}

\* 1.5, 2000 and 3.79
Lat15 == Num(FALSE, <<500, 1>>)
Last2000 == Num(FALSE, <<0, 0, 2>>)
Infl379 == Num(FALSE, <<790, 3>>)

\* 1852.72 and 130.86, the documented raw GDP and Population of Mexico
Gdp185272 == Num(FALSE, <<720, 852, 1>>)
Pop13086 == Num(FALSE, <<860, 130>>)

\* 0.05, the fraction the v1.0 formatter documents as 5%
Frac005 == Num(FALSE, <<50>>)

\* What a record of the API response can carry in a value field.
JsValues ==
    Numbers \cup {Infl379, Frac005, Gdp185272, Pop13086, NA, Null, Undefined, Str("12.5")}
    \cup {Bool(TRUE), Bool(FALSE), EmptyObject}

(***************************************************************************)
(* The page as the script finds it: nothing selected, nothing shown        *)
(***************************************************************************)
PageBeforeLoad ==
    /\ loaded = FALSE
    /\ country1Select = ""
    /\ country2Select = ""
    /\ isLoading = FALSE
    /\ resultsContainer = [t |-> "initial"]
    /\ timestampContainer = ""
    /\ alerted = ""
    /\ clicks = 0
    /\ calls = <<>>

(***************************************************************************)
(* Exact decimal arithmetic standing for the JavaScript number operators   *)
(***************************************************************************)
RECURSIVE CmpLimbs(_, _)
CmpLimbs(a, b) ==
    IF Len(a) = 0 THEN 0
    ELSE LET n == Len(a) IN
         IF a[n] > b[n] THEN 1
         ELSE IF a[n] < b[n] THEN -1
         ELSE CmpLimbs(SubSeq(a, 1, n - 1), SubSeq(b, 1, n - 1))

\* -1, 0, 1 as magnitude a is below, equal to, above magnitude b.
CmpMag(a, b) ==
    IF Len(a) > Len(b) THEN 1
    ELSE IF Len(a) < Len(b) THEN -1
    ELSE CmpLimbs(a, b)

\* -1, 0, 1 as number x is below, equal to, above number y.
Cmp(x, y) ==
    IF x.neg # y.neg THEN (IF x.neg THEN -1 ELSE 1)
    ELSE IF x.neg THEN CmpMag(y.mag, x.mag)
    ELSE CmpMag(x.mag, y.mag)

Gt(x, y) == Cmp(x, y) = 1
Lt(x, y) == Cmp(x, y) = -1
Ge(x, y) == Cmp(x, y) >= 0

Zeros(k) == [i \in 1..k |-> 0]

\* 10^(3k) as a number.
Pow1000(k) == Num(FALSE, Zeros(k + 1) \o <<1>>)

\* x * 10^(3k)
TimesPow1000(x, k) ==
    IF x.mag = <<>> THEN x ELSE Num(x.neg, Zeros(k) \o x.mag)

\* x * f for an integer 0 < f <= 1000
RECURSIVE TimesFrom(_, _, _, _)
TimesFrom(m, f, i, carry) ==
    IF i > Len(m) THEN (IF carry > 0 THEN <<carry>> ELSE <<>>)
    ELSE LET p == m[i] * f + carry IN
         <<p % 1000>> \o TimesFrom(m, f, i + 1, p \div 1000)

Times(x, f) == Num(x.neg, TimesFrom(x.mag, f, 1, 0))

\* Math.abs
Abs(x) == Num(FALSE, x.mag)

\* The literal 0.1
OneTenth == Num(FALSE, <<100>>)

\* The Category labels processComparisonData asks for.
IndicatorNames == {"GDP", "Population", "Inflation Rate"}

(***************************************************************************)
(* normalizeValue(value, indicatorName)                                    *)
(***************************************************************************)
\* Variant: the billions band starts above 1000 instead of at 1000.
normalizeValue_GdpAbove1000(value, indicatorName) ==
    IF typeof(value) # "number" THEN value
    ELSE IF indicatorName = "GDP" /\ Gt(value, OneTenth) /\ Lt(value, Pow1000(1))
        THEN TimesPow1000(value, 4)
    ELSE IF indicatorName = "GDP" /\ Gt(value, Pow1000(1)) /\ Lt(value, Pow1000(2))
        THEN TimesPow1000(value, 3)
    ELSE IF indicatorName = "Population" /\ Gt(value, OneTenth) /\ Lt(value, Pow1000(1))
        THEN TimesPow1000(value, 2)
    ELSE IF indicatorName = "Population" /\ Ge(value, Pow1000(1)) /\ Lt(value, Pow1000(2))
        THEN TimesPow1000(value, 1)
    ELSE value

\* Variant: a value that is not a number is coerced to one, so that "N/A"
\* becomes NaN.
normalizeValue_Coerce(value, indicatorName) ==
    IF typeof(value) # "number" THEN [t |-> "number", nan |-> TRUE]
    ELSE IF indicatorName = "GDP" /\ Gt(value, OneTenth) /\ Lt(value, Pow1000(1))
        THEN TimesPow1000(value, 4)
    ELSE IF indicatorName = "GDP" /\ Ge(value, Pow1000(1)) /\ Lt(value, Pow1000(2))
        THEN TimesPow1000(value, 3)
    ELSE IF indicatorName = "Population" /\ Gt(value, OneTenth) /\ Lt(value, Pow1000(1))
        THEN TimesPow1000(value, 2)
    ELSE IF indicatorName = "Population" /\ Ge(value, Pow1000(1)) /\ Lt(value, Pow1000(2))
        THEN TimesPow1000(value, 1)
    ELSE value

\* Variant: the bands are tested on, and the factor applied to, the
\* magnitude of the value.
normalizeValue_Magnitude(value, indicatorName) ==
    IF typeof(value) # "number" THEN value
    ELSE IF indicatorName = "GDP" /\ Gt(Abs(value), OneTenth) /\ Lt(Abs(value), Pow1000(1))
        THEN TimesPow1000(Abs(value), 4)
    ELSE IF indicatorName = "GDP" /\ Ge(Abs(value), Pow1000(1)) /\ Lt(Abs(value), Pow1000(2))
        THEN TimesPow1000(Abs(value), 3)
    ELSE IF indicatorName = "Population" /\ Gt(Abs(value), OneTenth) /\ Lt(Abs(value), Pow1000(1))
        THEN TimesPow1000(Abs(value), 2)
    ELSE IF indicatorName = "Population" /\ Ge(Abs(value), Pow1000(1)) /\ Lt(Abs(value), Pow1000(2))
        THEN TimesPow1000(Abs(value), 1)
    ELSE value

\* Variant: Population is scaled with the GDP factors.
normalizeValue_PopAsGdp(value, indicatorName) ==
    IF typeof(value) # "number" THEN value
    ELSE IF indicatorName \in {"GDP", "Population"}
            /\ Gt(value, OneTenth) /\ Lt(value, Pow1000(1))
        THEN TimesPow1000(value, 4)
    ELSE IF indicatorName \in {"GDP", "Population"}
            /\ Ge(value, Pow1000(1)) /\ Lt(value, Pow1000(2))
        THEN TimesPow1000(value, 3)
    ELSE value

\* Variant: the upper bands include their lower boundary 0.1.
normalizeValue_FromTenth(value, indicatorName) ==
    IF typeof(value) # "number" THEN value
    ELSE IF indicatorName = "GDP" /\ Ge(value, OneTenth) /\ Lt(value, Pow1000(1))
        THEN TimesPow1000(value, 4)
    ELSE IF indicatorName = "GDP" /\ Ge(value, Pow1000(1)) /\ Lt(value, Pow1000(2))
        THEN TimesPow1000(value, 3)
    ELSE IF indicatorName = "Population" /\ Ge(value, OneTenth) /\ Lt(value, Pow1000(1))
        THEN TimesPow1000(value, 2)
    ELSE IF indicatorName = "Population" /\ Ge(value, Pow1000(1)) /\ Lt(value, Pow1000(2))
        THEN TimesPow1000(value, 1)
    ELSE value

normalizeValue(value, indicatorName) ==
    IF typeof(value) # "number" THEN value
    ELSE IF indicatorName = "GDP" /\ Gt(value, OneTenth) /\ Lt(value, Pow1000(1))
        THEN TimesPow1000(value, 4)
    ELSE IF indicatorName = "GDP" /\ Ge(value, Pow1000(1)) /\ Lt(value, Pow1000(2))
        THEN TimesPow1000(value, 3)
    ELSE IF indicatorName = "Population" /\ Gt(value, OneTenth) /\ Lt(value, Pow1000(1))
        THEN TimesPow1000(value, 2)
    ELSE IF indicatorName = "Population" /\ Ge(value, Pow1000(1)) /\ Lt(value, Pow1000(2))
        THEN TimesPow1000(value, 1)
    ELSE value

(***************************************************************************)
(* Number.prototype.toFixed(2) and toLocaleString (two fraction digits)    *)
(***************************************************************************)
Pad2(n) == IF n < 10 THEN "0" \o ToString(n) ELSE ToString(n)

Pad3(n) == IF n < 10 THEN "00" \o ToString(n)
           ELSE IF n < 100 THEN "0" \o ToString(n)
           ELSE ToString(n)

\* The limbs of an integer plus one.
RECURSIVE Inc(_)
Inc(limbs) ==
    IF limbs = <<>> THEN <<1>>
    ELSE IF Head(limbs) < 999 THEN <<Head(limbs) + 1>> \o Tail(limbs)
    ELSE <<0>> \o Inc(Tail(limbs))

\* Decimal digits of the integer with these limbs, sep between groups of three.
RECURSIVE IntString(_, _)
IntString(limbs, sep) ==
    IF limbs = <<>> THEN "0"
    ELSE IF Len(limbs) = 1 THEN ToString(limbs[1])
    ELSE IntString(Tail(limbs), sep) \o sep \o Pad3(Head(limbs))

\* The decimal rendering, with two fraction digits, of x / 10^(3k): the
\* magnitude is rounded to the nearest hundredth, and a negative x keeps its
\* minus sign even when it rounds to zero.
Fixed2(x, k, sep) ==
    LET m       == x.mag
        fracL   == IF Len(m) >= k + 1 THEN m[k + 1] ELSE 0
        intL    == IF Len(m) >= k + 2 THEN SubSeq(m, k + 2, Len(m)) ELSE <<>>
        up      == IF fracL % 10 >= 5 THEN 1 ELSE 0
        h       == (fracL \div 10) + up
        intR    == IF h = 100 THEN Inc(intL) ELSE intL
    IN  (IF x.neg THEN "-" ELSE "") \o IntString(intR, sep) \o "." \o Pad2(h % 100)

\* (x / 10^(3k)).toFixed(2)
toFixed2(x, k) == Fixed2(x, k, "")

\* x.toLocaleString(undefined, {minimumFractionDigits: 2, maximumFractionDigits: 2})
\* in a locale that groups by "," and uses "." as the decimal mark.
toLocaleString2(x) == Fixed2(x, 0, ",")

(***************************************************************************)
(* formatNumber(value, type)                                               *)
(***************************************************************************)
\* String(value) for a value that is not a number
String(value) ==
    CASE typeof(value) = "string" -> value.s
      [] typeof(value) = "null" -> "null"
      [] typeof(value) = "undefined" -> "undefined"
      [] typeof(value) = "boolean" -> IF value.b THEN "true" ELSE "false"
      [] typeof(value) = "object" -> "[object Object]"

\* Variant: only the "N/A" string is tested before the string conversion.
formatNumber_SentinelOnly(value, type) ==
    IF value = NA THEN "N/A"
    ELSE IF typeof(value) # "number" THEN String(value)
    ELSE IF type = "percentage" THEN toFixed2(value, 0) \o "%"
    ELSE IF Gt(Abs(value), Pow1000(4)) THEN toFixed2(value, 4) \o " T"
    ELSE IF Gt(Abs(value), Pow1000(3)) THEN toFixed2(value, 3) \o " B"
    ELSE IF Gt(Abs(value), Pow1000(2)) THEN toFixed2(value, 2) \o " M"
    ELSE IF Gt(Abs(value), Pow1000(1)) THEN toFixed2(value, 1) \o " K"
    ELSE toLocaleString2(value)

\* Variant: the thresholds are compared with the signed value.
formatNumber_Signed(value, type) ==
    IF value = NA \/ value = Null \/ value = Undefined THEN "N/A"
    ELSE IF typeof(value) # "number" THEN String(value)
    ELSE IF type = "percentage" THEN toFixed2(value, 0) \o "%"
    ELSE IF Gt(value, Pow1000(4)) THEN toFixed2(value, 4) \o " T"
    ELSE IF Gt(value, Pow1000(3)) THEN toFixed2(value, 3) \o " B"
    ELSE IF Gt(value, Pow1000(2)) THEN toFixed2(value, 2) \o " M"
    ELSE IF Gt(value, Pow1000(1)) THEN toFixed2(value, 1) \o " K"
    ELSE toLocaleString2(value)

\* Variant: a percentage is taken to be a fraction and multiplied by 100.
formatNumber_Fraction(value, type) ==
    IF value = NA \/ value = Null \/ value = Undefined THEN "N/A"
    ELSE IF typeof(value) # "number" THEN String(value)
    ELSE IF type = "percentage" THEN toFixed2(Times(value, 100), 0) \o "%"
    ELSE IF Gt(Abs(value), Pow1000(4)) THEN toFixed2(value, 4) \o " T"
    ELSE IF Gt(Abs(value), Pow1000(3)) THEN toFixed2(value, 3) \o " B"
    ELSE IF Gt(Abs(value), Pow1000(2)) THEN toFixed2(value, 2) \o " M"
    ELSE IF Gt(Abs(value), Pow1000(1)) THEN toFixed2(value, 1) \o " K"
    ELSE toLocaleString2(value)

\* Variant: the largest suffix is " B".
formatNumber_Billions(value, type) ==
    IF value = NA \/ value = Null \/ value = Undefined THEN "N/A"
    ELSE IF typeof(value) # "number" THEN String(value)
    ELSE IF type = "percentage" THEN toFixed2(value, 0) \o "%"
    ELSE IF Gt(Abs(value), Pow1000(3)) THEN toFixed2(value, 3) \o " B"
    ELSE IF Gt(Abs(value), Pow1000(2)) THEN toFixed2(value, 2) \o " M"
    ELSE IF Gt(Abs(value), Pow1000(1)) THEN toFixed2(value, 1) \o " K"
    ELSE toLocaleString2(value)

formatNumber(value, type) ==
    IF value = NA \/ value = Null \/ value = Undefined THEN "N/A"
    ELSE IF typeof(value) # "number" THEN String(value)
    ELSE IF type = "percentage" THEN toFixed2(value, 0) \o "%"
    ELSE IF Gt(Abs(value), Pow1000(4)) THEN toFixed2(value, 4) \o " T"
    ELSE IF Gt(Abs(value), Pow1000(3)) THEN toFixed2(value, 3) \o " B"
    ELSE IF Gt(Abs(value), Pow1000(2)) THEN toFixed2(value, 2) \o " M"
    ELSE IF Gt(Abs(value), Pow1000(1)) THEN toFixed2(value, 1) \o " K"
    ELSE toLocaleString2(value)

\* The format kind of each row built by processComparisonData.
formatOf(indicatorName) ==
    IF indicatorName = "Inflation Rate" THEN "percentage" ELSE "number"

(***************************************************************************)
(* Arrays and records of the API response                                  *)
(***************************************************************************)
Arr(items) == [t |-> "array", items |-> items]

Obj(category, latestValue, lastValue, val) ==
    [t |-> "object", Category |-> category, LatestValue |-> latestValue,
     LastValue |-> lastValue, Value |-> val]

\* The completion of a call that throws instead of returning.
TypeError == [t |-> "throw"]

IsArray(data) == typeof(data) = "array"

\* ToBoolean of an array entry
Truthy(d) == d # Null /\ d # Undefined

\* d.Category === indicatorName: "true", "false", or "throw" (a TypeError)
\* when d is null or undefined.
CategoryIs(d, indicatorName) ==
    IF d = Null \/ d = Undefined THEN "throw"
    ELSE IF d.Category = Str(indicatorName) THEN "true"
    ELSE "false"

\* Variant: the callback reads d.Category without testing d first.
Matches_NoGuard(d, indicatorName) == CategoryIs(d, indicatorName)

\* The callback of data.find: d && d.Category === indicatorName
Matches(d, indicatorName) ==
    IF ~Truthy(d) THEN "false" ELSE CategoryIs(d, indicatorName)

\* Variant: the search keeps the last entry the callback accepts.
RECURSIVE find_Last(_, _)
find_Last(items, indicatorName) ==
    IF items = <<>> THEN Undefined
    ELSE LET m == Matches(items[Len(items)], indicatorName) IN
         IF m = "throw" THEN TypeError
         ELSE IF m = "true" THEN items[Len(items)]
         ELSE find_Last(SubSeq(items, 1, Len(items) - 1), indicatorName)

\* data.find(callback): the first entry the callback accepts, else undefined;
\* a throwing callback ends the search with its exception.
RECURSIVE find(_, _)
find(items, indicatorName) ==
    IF items = <<>> THEN Undefined
    ELSE LET m == Matches(Head(items), indicatorName) IN
         IF m = "throw" THEN TypeError
         ELSE IF m = "true" THEN Head(items)
         ELSE find(Tail(items), indicatorName)

\* Variant: LastValue is tried before LatestValue.
selectValue_LastFirst(item) ==
    IF item.LastValue # Undefined /\ item.LastValue # Null THEN item.LastValue
    ELSE IF item.LatestValue # Undefined /\ item.LatestValue # Null THEN item.LatestValue
    ELSE IF item.Value # Undefined /\ item.Value # Null THEN item.Value
    ELSE NA

\* Variant: a field is taken when it is truthy, so that 0 counts as unset.
selectValue_Truthy(item) ==
    IF item.LatestValue \notin {Undefined, Null, Zero} THEN item.LatestValue
    ELSE IF item.LastValue \notin {Undefined, Null, Zero} THEN item.LastValue
    ELSE IF item.Value \notin {Undefined, Null, Zero} THEN item.Value
    ELSE NA

\* The field chosen from the matched record, "N/A" when none is set.
selectValue(item) ==
    IF item.LatestValue # Undefined /\ item.LatestValue # Null THEN item.LatestValue
    ELSE IF item.LastValue # Undefined /\ item.LastValue # Null THEN item.LastValue
    ELSE IF item.Value # Undefined /\ item.Value # Null THEN item.Value
    ELSE NA

(***************************************************************************)
(* extractValue(data, indicatorName), local to processComparisonData       *)
(***************************************************************************)
\* Variant: when no record matches, the first record of the response is used.
extractValue_Fallback(data, indicatorName) ==
    IF ~IsArray(data) THEN NA
    ELSE IF Len(data.items) = 0 THEN NA
    ELSE LET found == find(data.items, indicatorName)
             item == IF found = Undefined THEN data.items[1] ELSE found
         IN
         IF item = TypeError THEN TypeError
         ELSE IF item = Undefined \/ item = Null THEN NA
         ELSE LET value == selectValue(item) IN
              IF typeof(value) = "number"
              THEN normalizeValue(value, indicatorName)
              ELSE value

extractValue(data, indicatorName) ==
    IF ~IsArray(data) THEN NA
    ELSE IF Len(data.items) = 0 THEN NA
    ELSE LET item == find(data.items, indicatorName) IN
         IF item = TypeError THEN TypeError
         ELSE IF item = Undefined THEN NA
         ELSE LET value == selectValue(item) IN
              IF typeof(value) = "number"
              THEN normalizeValue(value, indicatorName)
              ELSE value

(***************************************************************************)
(* Sampled API responses                                                   *)
(***************************************************************************)
\* Most entries of a sampled response array.
MaxRecords == 2

\* Every way the three value fields of a record can be set, unset or null;
\* LatestValue can also be a string.
FieldCombos ==
    {<<a, b, c>> : a \in {Undefined, Null, Lat15, Str("12.5")},
                   b \in {Undefined, Null, Last2000},
                   c \in {Undefined, Null, Zero}}

Entries ==
    {Null}
    \cup {Obj(Str("GDP"), f[1], f[2], f[3]) : f \in FieldCombos}
    \cup {Obj(Str("Population"), Undefined, Lat15, Last2000),
          Obj(Str("Population"), Zero, Null, Lat15),
          Obj(Str("Inflation Rate"), Infl379, Lat15, Last2000),
          Obj(Str("Inflation Rate"), Null, Undefined, Infl379),
          Obj(Str("gdp"), Last2000, Lat15, Zero),
          Obj(Str("GDP Growth Rate"), Infl379, Lat15, Last2000),
          Obj(Undefined, Infl379, Lat15, Last2000)}

Arrays == {Arr(s) : s \in UNION {[1..n -> Entries] : n \in 0..MaxRecords}}

\* What fetchCountryData can hand over, and what a caller could pass instead.
Responses == Arrays \cup {Null, Undefined, Str("error"),
                          Obj(Str("GDP"), Lat15, Last2000, Zero)}

(***************************************************************************)
(* Specification of extractValue over the sampled responses                *)
(***************************************************************************)
InitExtract ==
    /\ PageBeforeLoad
    /\ pc = "call"
    /\ args \in [data : Responses, indicatorName : IndicatorNames]
    /\ ret = Undefined

CallExtract ==
    /\ pc = "call"
    /\ ret' = extractValue(args.data, args.indicatorName)
    /\ pc' = "done"
    /\ UNCHANGED <<args, page>>

NextExtract == CallExtract

SpecExtract == InitExtract /\ [][NextExtract]_vars

(***************************************************************************)
(* Exact subtraction standing for the JavaScript operator val1 - val2      *)
(***************************************************************************)
Limb(m, i) == IF i <= Len(m) THEN m[i] ELSE 0

MaxLen(a, b) == IF Len(a) >= Len(b) THEN Len(a) ELSE Len(b)

\* Drop the most significant zero limbs.
RECURSIVE Strip(_)
Strip(m) ==
    IF m = <<>> THEN <<>>
    ELSE IF m[Len(m)] = 0 THEN Strip(SubSeq(m, 1, Len(m) - 1))
    ELSE m

RECURSIVE AddFrom(_, _, _, _)
AddFrom(a, b, i, carry) ==
    IF i > MaxLen(a, b) THEN (IF carry = 1 THEN <<1>> ELSE <<>>)
    ELSE LET sum == Limb(a, i) + Limb(b, i) + carry IN
         <<sum % 1000>> \o AddFrom(a, b, i + 1, sum \div 1000)

\* a - b for magnitudes with a >= b
RECURSIVE SubFrom(_, _, _, _)
SubFrom(a, b, i, borrow) ==
    IF i > MaxLen(a, b) THEN <<>>
    ELSE LET d == Limb(a, i) - Limb(b, i) - borrow IN
         IF d < 0 THEN <<d + 1000>> \o SubFrom(a, b, i + 1, 1)
         ELSE <<d>> \o SubFrom(a, b, i + 1, 0)

AddMag(a, b) == Strip(AddFrom(a, b, 1, 0))
SubMag(a, b) == Strip(SubFrom(a, b, 1, 0))

\* x - y
Minus(x, y) ==
    IF x.neg # y.neg THEN Num(x.neg, AddMag(x.mag, y.mag))
    ELSE IF CmpMag(x.mag, y.mag) = 0 THEN Zero
    ELSE IF CmpMag(x.mag, y.mag) = 1 THEN Num(x.neg, SubMag(x.mag, y.mag))
    ELSE Num(~x.neg, SubMag(y.mag, x.mag))

(***************************************************************************)
(* Specification of formatNumber over what renderTable hands it: the       *)
(* canonical value of a cell, and the difference of two cells (here the    *)
(* difference between a cell holding 0 and the cell)                       *)
(***************************************************************************)
InitFormat ==
    /\ PageBeforeLoad
    /\ pc = "call"
    /\ \E raw \in JsValues, name \in IndicatorNames, use \in {"cell", "difference"} :
          /\ use = "difference" => typeof(raw) = "number"
          /\ args = [raw |-> raw, indicatorName |-> name, use |-> use,
                     value |-> IF use = "cell" THEN normalizeValue(raw, name)
                               ELSE Minus(normalizeValue(Zero, name),
                                          normalizeValue(raw, name)),
                     type |-> formatOf(name)]
    /\ ret = Undefined

CallFormat ==
    /\ pc = "call"
    /\ ret' = Str(formatNumber(args.value, args.type))
    /\ pc' = "done"
    /\ UNCHANGED <<args, page>>

NextFormat == CallFormat

SpecFormat == InitFormat /\ [][NextFormat]_vars

(***************************************************************************)
(* formatNumber(value, type) of script.js v1.0                             *)
(***************************************************************************)
\* Variant: a percentage is formatted as it is, as in v2.4.
formatNumberV1_Plain(value, type) ==
    IF value = NA \/ value = Null \/ value = Undefined THEN "N/A"
    ELSE IF typeof(value) # "number" THEN String(value)
    ELSE IF type = "percentage" THEN toFixed2(value, 0) \o "%"
    ELSE IF Gt(value, Pow1000(4)) THEN toFixed2(value, 4) \o " T"
    ELSE IF Gt(value, Pow1000(3)) THEN toFixed2(value, 3) \o " B"
    ELSE IF Gt(value, Pow1000(2)) THEN toFixed2(value, 2) \o " M"
    ELSE toLocaleString2(value)

formatNumberV1(value, type) ==
    IF value = NA \/ value = Null \/ value = Undefined THEN "N/A"
    ELSE IF typeof(value) # "number" THEN String(value)
    ELSE IF type = "percentage" THEN toFixed2(Times(value, 100), 0) \o "%"
    ELSE IF Gt(value, Pow1000(4)) THEN toFixed2(value, 4) \o " T"
    ELSE IF Gt(value, Pow1000(3)) THEN toFixed2(value, 3) \o " B"
    ELSE IF Gt(value, Pow1000(2)) THEN toFixed2(value, 2) \o " M"
    ELSE toLocaleString2(value)

(***************************************************************************)
(* Specification of the two revisions of formatNumber on the same value    *)
(***************************************************************************)
InitRevisions ==
    /\ PageBeforeLoad
    /\ pc = "call"
    /\ args \in [value : JsValues, type : {"number", "percentage"}]
    /\ ret = Undefined

CallFormatV1 ==
    /\ pc = "call"
    /\ ret' = [v1 |-> formatNumberV1(args.value, args.type)]
    /\ pc' = "v1"
    /\ UNCHANGED <<args, page>>

CallFormatV24 ==
    /\ pc = "v1"
    /\ ret' = [v1 |-> ret.v1, v24 |-> formatNumber(args.value, args.type)]
    /\ pc' = "done"
    /\ UNCHANGED <<args, page>>

NextRevisions == CallFormatV1 \/ CallFormatV24

SpecRevisions == InitRevisions /\ [][NextRevisions]_vars

(***************************************************************************)
(* calculateDifference(val1, val2, formatType), local to renderTable       *)
(***************************************************************************)
\* Variant: a positive difference gets no "+".
diffText_Unsigned(diff, formatType) ==
    IF Lt(diff, Zero) THEN formatNumber(diff, formatType)
    ELSE IF Gt(diff, Zero) THEN formatNumber(diff, formatType)
    ELSE formatNumber(Zero, formatType)

diffText(diff, formatType) ==
    IF Gt(diff, Zero) THEN "+" \o formatNumber(diff, formatType)
    ELSE IF Lt(diff, Zero) THEN formatNumber(diff, formatType)
    ELSE formatNumber(Zero, formatType)

diffClass(diff) ==
    IF Gt(diff, Zero) THEN "positive-diff"
    ELSE IF Lt(diff, Zero) THEN "negative-diff"
    ELSE ""

\* The number NaN
NaN == [t |-> "number", nan |-> TRUE]

\* Variant: only val1 is tested; a numeric val1 minus "N/A" is NaN, which is
\* neither above nor below 0.
calculateDifference_FirstOnly(val1, val2, formatType) ==
    IF val1 = NA \/ typeof(val1) # "number"
    THEN [text |-> "N/A", class |-> "", value |-> Null]
    ELSE IF typeof(val2) # "number"
    THEN [text |-> formatNumber(Zero, formatType), class |-> "", value |-> NaN]
    ELSE LET diff == Minus(val1, val2) IN
         [text |-> diffText(diff, formatType),
          class |-> diffClass(diff),
          value |-> diff]

\* Variant: the difference is taken as val2 - val1.
calculateDifference_Reversed(val1, val2, formatType) ==
    IF val1 = NA \/ val2 = NA \/ typeof(val1) # "number" \/ typeof(val2) # "number"
    THEN [text |-> "N/A", class |-> "", value |-> Null]
    ELSE LET diff == Minus(val2, val1) IN
         [text |-> diffText(diff, formatType),
          class |-> diffClass(diff),
          value |-> diff]

calculateDifference(val1, val2, formatType) ==
    IF val1 = NA \/ val2 = NA \/ typeof(val1) # "number" \/ typeof(val2) # "number"
    THEN [text |-> "N/A", class |-> "", value |-> Null]
    ELSE LET diff == Minus(val1, val2) IN
         [text |-> diffText(diff, formatType),
          class |-> diffClass(diff),
          value |-> diff]

(***************************************************************************)
(* Specification of calculateDifference over the values of one row         *)
(***************************************************************************)
\* Longest magnitude of a sampled raw value of a compared row, in limbs.
MaxRowLimbs == 2

RowMags ==
    {m \in UNION {[1..n -> LimbDigits] : n \in 0..MaxRowLimbs} :
        m = <<>> \/ m[Len(m)] # 0}

\* What a record can carry in the field extractValue selects.
RowRaw ==
    {Num(FALSE, m) : m \in RowMags} \cup {Num(TRUE, m) : m \in RowMags \ {<<>>}}
    \cup {Last2000, Num(FALSE, <<0, 0, 0, 1>>)}
    \cup {NA, Str("12.5")}

InitDifference ==
    /\ PageBeforeLoad
    /\ pc = "call"
    /\ \E raw1 \in RowRaw, raw2 \in RowRaw, name \in IndicatorNames :
          args = [indicatorName |-> name,
                  raw1 |-> raw1,
                  raw2 |-> raw2,
                  val1 |-> normalizeValue(raw1, name),
                  val2 |-> normalizeValue(raw2, name),
                  formatType |-> formatOf(name)]
    /\ ret = Undefined

CallDifference ==
    /\ pc = "call"
    /\ ret' = calculateDifference(args.val1, args.val2, args.formatType)
    /\ pc' = "done"
    /\ UNCHANGED <<args, page>>

NextDifference == CallDifference

SpecDifference == InitDifference /\ [][NextDifference]_vars

(***************************************************************************)
(* processComparisonData(data1, data2)                                     *)
(***************************************************************************)
descriptionOf(indicatorName) ==
    CASE indicatorName = "GDP" -> "Gross Domestic Product"
      [] indicatorName = "Population" -> "Total population"
      [] indicatorName = "Inflation Rate" -> "Annual change in consumer prices"

\* Variant: the second country takes the value of the first when its own
\* list has none.
indicator_Fallback(data1, data2, indicatorName) ==
    [name |-> indicatorName,
     country1 |-> extractValue(data1, indicatorName),
     country2 |-> IF extractValue(data2, indicatorName) = NA
                  THEN extractValue(data1, indicatorName)
                  ELSE extractValue(data2, indicatorName),
     format |-> formatOf(indicatorName),
     description |-> descriptionOf(indicatorName)]

\* One element of the indicators array.
indicator(data1, data2, indicatorName) ==
    [name |-> indicatorName,
     country1 |-> extractValue(data1, indicatorName),
     country2 |-> extractValue(data2, indicatorName),
     format |-> formatOf(indicatorName),
     description |-> descriptionOf(indicatorName)]

\* Variant: a row is built only for an indicator some country has a value of.
processComparisonData_Available(data1, data2) ==
    SelectSeq(<<indicator(data1, data2, "GDP"),
                indicator(data1, data2, "Population"),
                indicator(data1, data2, "Inflation Rate")>>,
              LAMBDA row : row.country1 # NA \/ row.country2 # NA)

processComparisonData(data1, data2) ==
    <<indicator(data1, data2, "GDP"),
      indicator(data1, data2, "Population"),
      indicator(data1, data2, "Inflation Rate")>>

(***************************************************************************)
(* formatCountryName(countryCode)                                          *)
(***************************************************************************)
Lower == "abcdefghijklmnopqrstuvwxyz"
Upper == "ABCDEFGHIJKLMNOPQRSTUVWXYZ"

charAt(s, i) == SubSeq(s, i, i)

toUpperCase(c) ==
    IF \E i \in 1..Len(Lower) : charAt(Lower, i) = c
    THEN charAt(Upper, CHOOSE i \in 1..Len(Lower) : charAt(Lower, i) = c)
    ELSE c

toLowerCase(c) ==
    IF \E i \in 1..Len(Upper) : charAt(Upper, i) = c
    THEN charAt(Lower, CHOOSE i \in 1..Len(Upper) : charAt(Upper, i) = c)
    ELSE c

\* split(' '), first character of each word in upper case and the rest of
\* it in lower case, join(' '): the characters at the start and after a
\* space are put in upper case, the others in lower case.
RECURSIVE TitleFrom(_, _)
TitleFrom(s, i) ==
    IF i > Len(s) THEN ""
    ELSE (IF i = 1 \/ charAt(s, i - 1) = " "
          THEN toUpperCase(charAt(s, i))
          ELSE toLowerCase(charAt(s, i))) \o TitleFrom(s, i + 1)

formatCountryName(countryCode) ==
    IF countryCode = "" THEN "" ELSE TitleFrom(countryCode, 1)

(***************************************************************************)
(* renderTable(indicators, country1, country2): the table put in the       *)
(* results container                                                       *)
(***************************************************************************)
diffStyle(class) ==
    IF class = "positive-diff" THEN "color: #0b7e4b; font-weight: bold;"
    ELSE IF class = "negative-diff" THEN "color: #b45309; font-weight: bold;"
    ELSE ""

\* One <tr> of the table body.
tableRow(row) ==
    LET val1 == row.country1
        val2 == row.country2
        diff == calculateDifference(val1, val2, row.format)
    IN  [name |-> row.name,
         description |-> row.description,
         formatted1 |-> formatNumber(val1, row.format),
         formatted2 |-> formatNumber(val2, row.format),
         difference |-> diff.text,
         style |-> diffStyle(diff.class)]

tableHtml(indicators, country1, country2) ==
    [t |-> "table",
     title |-> formatCountryName(country1) \o " vs " \o formatCountryName(country2),
     head |-> <<"Economic Indicator", formatCountryName(country1),
                formatCountryName(country2), "Difference">>,
     body |-> [i \in 1..Len(indicators) |-> tableRow(indicators[i])]]

(***************************************************************************)
(* Specification of processComparisonData followed by renderTable over     *)
(* pairs of sampled responses                                              *)
(***************************************************************************)
COUNTRIES == <<"sweden", "mexico", "new zealand", "thailand">>

\* Records of one indicator at the head of a sampled response: none, one,
\* one after a null entry, or two of which the first is to be taken.
GdpRecords ==
    {<<>>,
     <<Obj(Str("GDP"), Lat15, Last2000, Zero)>>,
     <<Obj(Str("GDP"), Zero, Last2000, Lat15)>>,
     <<Obj(Str("GDP"), Str("12.5"), Last2000, Zero)>>,
     <<Null, Obj(Str("GDP"), Null, Last2000, Zero)>>,
     <<Obj(Str("GDP"), Undefined, Undefined, Zero),
       Obj(Str("GDP"), Lat15, Last2000, Zero)>>}

PopulationRecords ==
    {<<>>,
     <<Obj(Str("Population"), Undefined, Last2000, Lat15)>>,
     <<Obj(Str("Population"), Null, Null, Zero)>>}

InflationRecords ==
    {<<>>,
     <<Obj(Str("Inflation Rate"), Infl379, Lat15, Last2000)>>,
     <<Obj(Str("Inflation Rate"), Zero, Infl379, Lat15)>>,
     <<Obj(Str("Inflation Rate"), Num(TRUE, <<500, 1>>), Infl379, Lat15)>>}

\* Complete, partial and empty lists of records, and what is not a list.
TableData ==
    {Arr(g \o p \o i) : g \in GdpRecords, p \in PopulationRecords,
                         i \in InflationRecords}
    \cup {Arr(i \o g) : g \in GdpRecords, i \in InflationRecords}
    \cup {Null, Undefined, Obj(Str("GDP"), Lat15, Last2000, Zero)}

InitTable ==
    /\ PageBeforeLoad
    /\ pc = "call"
    /\ \E data1 \in TableData, data2 \in TableData,
          i \in 1..Len(COUNTRIES), j \in 1..Len(COUNTRIES) :
          /\ j = (i % Len(COUNTRIES)) + 1
          /\ args = [data1 |-> data1, data2 |-> data2,
                     country1 |-> COUNTRIES[i], country2 |-> COUNTRIES[j]]
    /\ ret = Undefined

CallProcess ==
    /\ pc = "call"
    /\ ret' = [indicators |-> processComparisonData(args.data1, args.data2)]
    /\ pc' = "processed"
    /\ UNCHANGED <<args, page>>

CallRender ==
    /\ pc = "processed"
    /\ ret' = [indicators |-> ret.indicators,
               html |-> tableHtml(ret.indicators, args.country1, args.country2)]
    /\ pc' = "done"
    /\ UNCHANGED <<args, page>>

NextTable == CallProcess \/ CallRender

SpecTable == InitTable /\ [][NextTable]_vars

(***************************************************************************)
(* fetchCountryData(country): what the promise resolves to, as a function  *)
(* of what the proxy answers                                               *)
(***************************************************************************)
\* A body response.json() cannot parse
Unparsable == [t |-> "invalid json"]

Rejected == [kind |-> "rejected", ok |-> FALSE, body |-> Undefined]
Response(ok, body) == [kind |-> "response", ok |-> ok, body |-> body]

\* Variant: the status of the response is not tested.
fetchCountryData_AnyStatus(response) ==
    IF response.kind = "rejected" THEN Null
    ELSE IF response.body = Unparsable THEN Null
    ELSE IF ~IsArray(response.body) THEN Null
    ELSE IF Len(response.body.items) = 0 THEN Null
    ELSE response.body

\* Variant: the length of the list is not tested.
fetchCountryData_EmptyPassed(response) ==
    IF response.kind = "rejected" THEN Null
    ELSE IF ~response.ok THEN Null
    ELSE IF response.body = Unparsable THEN Null
    ELSE IF ~IsArray(response.body) THEN Null
    ELSE response.body

fetchCountryData(response) ==
    IF response.kind = "rejected" THEN Null
    ELSE IF ~response.ok THEN Null
    ELSE IF response.body = Unparsable THEN Null
    ELSE IF ~IsArray(response.body) THEN Null
    ELSE IF Len(response.body.items) = 0 THEN Null
    ELSE response.body

\* Sampled answers: a complete list, a partial list, the empty list, an
\* object, a body that is not JSON, an HTTP error and a network error.
FullData ==
    Arr(<<Obj(Str("GDP"), Lat15, Last2000, Zero),
          Obj(Str("Population"), Undefined, Last2000, Lat15),
          Obj(Str("Inflation Rate"), Infl379, Lat15, Last2000)>>)

PartialData == Arr(<<Obj(Str("Inflation Rate"), Zero, Infl379, Lat15)>>)

OtherData ==
    Arr(<<Obj(Str("GDP"), Zero, Last2000, Lat15),
          Obj(Str("Population"), Null, Null, Zero)>>)

\* The list the API holds for a country: each sampled country has its own.
DataOf(country) ==
    IF country = "mexico" THEN FullData
    ELSE IF country = "sweden" THEN PartialData
    ELSE OtherData

\* What the request for a country can be answered with.
HttpResponses(country) ==
    {Rejected, Response(FALSE, Undefined), Response(TRUE, Unparsable),
     Response(TRUE, Arr(<<>>)), Response(TRUE, Obj(Str("error"), Null, Null, Null)),
     Response(TRUE, DataOf(country))}

(***************************************************************************)
(* Specification of fetchCountryData over every status and sampled body    *)
(***************************************************************************)
FetchResponses ==
    {Rejected}
    \cup {Response(ok, body) : ok \in BOOLEAN, body \in Responses \cup {Unparsable}}

InitFetch ==
    /\ PageBeforeLoad
    /\ pc = "call"
    /\ args \in [response : FetchResponses]
    /\ ret = Undefined

CallFetch ==
    /\ pc = "call"
    /\ ret' = fetchCountryData(args.response)
    /\ pc' = "done"
    /\ UNCHANGED <<args, page>>

NextFetch == CallFetch

SpecFetch == InitFetch /\ [][NextFetch]_vars

(***************************************************************************)
(* The page: window.onload, the dropdowns, compareCountries                *)
(***************************************************************************)
Pending == [t |-> "pending"]

\* showLoading(country1, country2)
loadingHtml(country1, country2) ==
    [t |-> "loading",
     text |-> "Retrieving " \o formatCountryName(country1) \o " and "
                \o formatCountryName(country2)]

\* showError(title, message, type)
errorHtml(title, message, type) ==
    [t |-> "error", title |-> title, message |-> message, type |-> type]

\* What renderTable puts in the timestamp container; the date is left out.
retrievedHtml == "Data retrieved"

InitPage ==
    /\ PageBeforeLoad
    /\ pc = "page"
    /\ args = Undefined
    /\ ret = Undefined

\* window.onload fills the dropdowns and selects Mexico and Sweden.
onload ==
    /\ ~loaded
    /\ loaded' = TRUE
    /\ country1Select' = "mexico"
    /\ country2Select' = "sweden"
    /\ UNCHANGED <<call, isLoading, resultsContainer, timestampContainer,
                   alerted, clicks, calls>>

\* The options the user is taken to pick: Sweden, Mexico and New Zealand.
Picked == {COUNTRIES[1], COUNTRIES[2], COUNTRIES[3]}

\* The user picks another option in one of the dropdowns.
selectCountry ==
    /\ loaded
    /\ \E country \in Picked :
          \/ /\ country1Select # country
             /\ country1Select' = country
             /\ UNCHANGED country2Select
          \/ /\ country2Select # country
             /\ country2Select' = country
             /\ UNCHANGED country1Select
    /\ UNCHANGED <<call, loaded, isLoading, resultsContainer, timestampContainer,
                   alerted, clicks, calls>>

\* The invocation record of a comparison that went past the guard: its two
\* countries and the two promises of Promise.all.
Awaiting(country1, country2) ==
    [pc |-> "await", country1 |-> country1, country2 |-> country2,
     data1 |-> Pending, data2 |-> Pending]

\* Variant: the isLoading flag is not tested.
compareCountries_Unguarded ==
    /\ clicks < MaxClicks
    /\ clicks' = clicks + 1
    /\ LET country1 == country1Select
           country2 == country2Select
       IN  IF country1 = "" \/ country2 = ""
           THEN /\ alerted' = "Please select both countries to compare."
                /\ UNCHANGED <<isLoading, resultsContainer, timestampContainer, calls>>
           ELSE IF country1 = country2
           THEN /\ alerted' = "Please select two different countries to compare."
                /\ UNCHANGED <<isLoading, resultsContainer, timestampContainer, calls>>
           ELSE /\ isLoading' = TRUE
                /\ resultsContainer' = loadingHtml(country1, country2)
                /\ timestampContainer' = ""
                /\ calls' = Append(calls, Awaiting(country1, country2))
                /\ UNCHANGED alerted
    /\ UNCHANGED <<call, loaded, country1Select, country2Select>>

\* Variant: showLoading is not called.
compareCountries_NoSpinner ==
    /\ clicks < MaxClicks
    /\ clicks' = clicks + 1
    /\ LET country1 == country1Select
           country2 == country2Select
       IN  IF country1 = "" \/ country2 = ""
           THEN /\ alerted' = "Please select both countries to compare."
                /\ UNCHANGED <<isLoading, resultsContainer, timestampContainer, calls>>
           ELSE IF country1 = country2
           THEN /\ alerted' = "Please select two different countries to compare."
                /\ UNCHANGED <<isLoading, resultsContainer, timestampContainer, calls>>
           ELSE IF isLoading
           THEN UNCHANGED <<alerted, isLoading, resultsContainer,
                            timestampContainer, calls>>
           ELSE /\ isLoading' = TRUE
                /\ calls' = Append(calls, Awaiting(country1, country2))
                /\ UNCHANGED <<alerted, resultsContainer, timestampContainer>>
    /\ UNCHANGED <<call, loaded, country1Select, country2Select>>

\* Variant: the selection is not validated.
compareCountries_Unvalidated ==
    /\ clicks < MaxClicks
    /\ clicks' = clicks + 1
    /\ LET country1 == country1Select
           country2 == country2Select
       IN  IF isLoading
           THEN UNCHANGED <<alerted, isLoading, resultsContainer,
                            timestampContainer, calls>>
           ELSE /\ isLoading' = TRUE
                /\ resultsContainer' = loadingHtml(country1, country2)
                /\ timestampContainer' = ""
                /\ calls' = Append(calls, Awaiting(country1, country2))
                /\ UNCHANGED alerted
    /\ UNCHANGED <<call, loaded, country1Select, country2Select>>

\* A Compare click: compareCountries up to its await.  The two calls of
\* fetchCountryData run up to their own await, which sends both requests.
compareCountries ==
    /\ clicks < MaxClicks
    /\ clicks' = clicks + 1
    /\ LET country1 == country1Select
           country2 == country2Select
       IN  IF country1 = "" \/ country2 = ""
           THEN /\ alerted' = "Please select both countries to compare."
                /\ UNCHANGED <<isLoading, resultsContainer, timestampContainer, calls>>
           ELSE IF country1 = country2
           THEN /\ alerted' = "Please select two different countries to compare."
                /\ UNCHANGED <<isLoading, resultsContainer, timestampContainer, calls>>
           ELSE IF isLoading
           THEN UNCHANGED <<alerted, isLoading, resultsContainer,
                            timestampContainer, calls>>
           ELSE /\ isLoading' = TRUE
                /\ resultsContainer' = loadingHtml(country1, country2)
                /\ timestampContainer' = ""
                /\ calls' = Append(calls, Awaiting(country1, country2))
                /\ UNCHANGED alerted
    /\ UNCHANGED <<call, loaded, country1Select, country2Select>>

\* Variant: the answer for the second country resolves the first promise
\* and the answer for the first country the second.
fetchSettles_Crossed ==
    /\ \E i \in 1..Len(calls) :
          /\ calls[i].pc = "await"
          /\ \/ /\ calls[i].data1 = Pending
                /\ \E response \in HttpResponses(calls[i].country2) :
                      calls' = [calls EXCEPT ![i].data1 = fetchCountryData(response)]
             \/ /\ calls[i].data2 = Pending
                /\ \E response \in HttpResponses(calls[i].country1) :
                      calls' = [calls EXCEPT ![i].data2 = fetchCountryData(response)]
    /\ UNCHANGED <<call, loaded, country1Select, country2Select, isLoading,
                   resultsContainer, timestampContainer, alerted, clicks>>

\* One of the two requests of an invocation is answered and its
\* fetchCountryData promise resolves: the first element of Promise.all is
\* the promise for country1, the second the promise for country2.
fetchSettles ==
    /\ \E i \in 1..Len(calls) :
          /\ calls[i].pc = "await"
          /\ \/ /\ calls[i].data1 = Pending
                /\ \E response \in HttpResponses(calls[i].country1) :
                      calls' = [calls EXCEPT ![i].data1 = fetchCountryData(response)]
             \/ /\ calls[i].data2 = Pending
                /\ \E response \in HttpResponses(calls[i].country2) :
                      calls' = [calls EXCEPT ![i].data2 = fetchCountryData(response)]
    /\ UNCHANGED <<call, loaded, country1Select, country2Select, isLoading,
                   resultsContainer, timestampContainer, alerted, clicks>>

\* An exception out of processComparisonData reaches the catch block.
Thrown(indicators) ==
    \E i \in 1..Len(indicators) :
        indicators[i].country1 = TypeError \/ indicators[i].country2 = TypeError

\* What compareCountries shows once both promises are resolved: the content
\* of the results container and of the timestamp container.
failedError ==
    [results |-> errorHtml("Failed to retrieve economic data",
                           "The API proxy may be rate-limited. Please wait a few seconds and try again.",
                           "error"),
     timestamp |-> ""]

noDataWarning ==
    [results |-> errorHtml("No data available",
                           "The selected countries may not have the requested indicators in the free tier.",
                           "warning"),
     timestamp |-> ""]

unexpectedError ==
    [results |-> errorHtml("Unexpected Error",
                           "Something went wrong. Please try again or check the console for details.",
                           "error"),
     timestamp |-> ""]

\* processComparisonData, then renderTable, inside the try block.
rendered(data1, data2, country1, country2) ==
    LET indicators == processComparisonData(data1, data2) IN
    IF Thrown(indicators) THEN unexpectedError
    ELSE [results |-> tableHtml(indicators, country1, country2),
          timestamp |-> retrievedHtml]

\* Variant: a null fetch result is handed to processComparisonData like a
\* list of records.
shown_NoRecords(data1, data2, country1, country2) ==
    rendered(data1, data2, country1, country2)

\* Variant: the error is shown only when both fetches failed; with one
\* list the table is rendered.
shown_PartialTable(data1, data2, country1, country2) ==
    IF data1 = Null /\ data2 = Null THEN failedError
    ELSE rendered(data1, data2, country1, country2)

shown(data1, data2, country1, country2) ==
    IF data1 = Null \/ data2 = Null THEN failedError
    ELSE IF Len(data1.items) = 0 \/ Len(data2.items) = 0 THEN noDataWarning
    ELSE rendered(data1, data2, country1, country2)

\* Both promises of invocation i are resolved.
Settled(i) ==
    /\ calls[i].pc = "await"
    /\ calls[i].data1 # Pending
    /\ calls[i].data2 # Pending

\* Variant: the error branch returns without resetting isLoading.
resume_StuckOnError ==
    \E i \in 1..Len(calls) :
        /\ Settled(i)
        /\ resultsContainer' =
              shown(calls[i].data1, calls[i].data2,
                    calls[i].country1, calls[i].country2).results
        /\ timestampContainer' =
              shown(calls[i].data1, calls[i].data2,
                    calls[i].country1, calls[i].country2).timestamp
        /\ isLoading' = (calls[i].data1 = Null \/ calls[i].data2 = Null)
        /\ calls' = [calls EXCEPT ![i] = [pc |-> "done"]]
        /\ UNCHANGED <<call, loaded, country1Select, country2Select, alerted, clicks>>

\* compareCountries after its await: both promises are resolved, the
\* outcome is shown and isLoading is reset.
resume ==
    \E i \in 1..Len(calls) :
        /\ Settled(i)
        /\ resultsContainer' =
              shown(calls[i].data1, calls[i].data2,
                    calls[i].country1, calls[i].country2).results
        /\ timestampContainer' =
              shown(calls[i].data1, calls[i].data2,
                    calls[i].country1, calls[i].country2).timestamp
        /\ isLoading' = FALSE
        /\ calls' = [calls EXCEPT ![i] = [pc |-> "done"]]
        /\ UNCHANGED <<call, loaded, country1Select, country2Select, alerted, clicks>>

Next == onload \/ selectCountry \/ compareCountries \/ fetchSettles \/ resume

Spec == InitPage /\ [][Next]_vars

\* What a resume step does to calls: an invocation whose promises are both
\* resolved finishes.  Under Next the steps that satisfy it are the resume
\* steps, and it is enabled exactly when resume is.
finished ==
    \E i \in 1..Len(calls) :
        /\ Settled(i)
        /\ calls' = [calls EXCEPT ![i] = [pc |-> "done"]]

\* Every request is answered in the end, and the continuation of an
\* invocation runs once its two promises are resolved.
FairSpec == Spec /\ WF_vars(fetchSettles) /\ WF_calls(finished)

(***************************************************************************)
(* Specification of normalizeValue over the sampled inputs                 *)
(***************************************************************************)
InitNormalize ==
    /\ PageBeforeLoad
    /\ pc = "call"
    /\ args \in [value : JsValues, indicatorName : IndicatorNames]
    /\ ret = Undefined

CallNormalize ==
    /\ pc = "call"
    /\ ret' = normalizeValue(args.value, args.indicatorName)
    /\ pc' = "done"
    /\ UNCHANGED <<args, page>>

NextNormalize == CallNormalize

SpecNormalize == InitNormalize /\ [][NextNormalize]_vars

(***************************************************************************)
(* Properties of normalizeValue                                            *)
(***************************************************************************)
\* The bands read off the limbs of a number, without the comparison operators:
\* 0.1 < v < 1000
InUpperBand(v) ==
    /\ ~v.neg
    /\ \/ Len(v.mag) = 1 /\ v.mag[1] > 100
       \/ Len(v.mag) = 2

\* 1000 <= v < 1,000,000
InLowerBand(v) == ~v.neg /\ Len(v.mag) = 3

\* r = v * 10^(3k), for v # 0
ScaledBy(v, k, r) ==
    /\ typeof(r) = "number"
    /\ r.neg = v.neg
    /\ Len(r.mag) = Len(v.mag) + k
    /\ \A i \in 1..k : r.mag[i] = 0
    /\ \A i \in 1..Len(v.mag) : r.mag[i + k] = v.mag[i]

NormalizedNumber(name) ==
    pc = "done" /\ args.indicatorName = name /\ typeof(args.value) = "number"

\* C1: for GDP, normalizeValue(v) is v*10^12 when 0.1 < v < 1000, v*10^9 when
\* 1000 <= v < 1,000,000 (1000 itself included), and v for every other number.
C1_GdpBands ==
    NormalizedNumber("GDP") =>
        IF InUpperBand(args.value) THEN ScaledBy(args.value, 4, ret)
        ELSE IF InLowerBand(args.value) THEN ScaledBy(args.value, 3, ret)
        ELSE ret = args.value

\* GDP 1000 has been normalised to 10^12 through the billions branch.
C1_Witness ==
    /\ NormalizedNumber("GDP")
    /\ args.value = Num(FALSE, <<0, 0, 1>>)
    /\ ret = Num(FALSE, <<0, 0, 0, 0, 0, 1>>)

\* C2: for Population, normalizeValue(v) is v*10^6 when 0.1 < v < 1000, v*10^3
\* when 1000 <= v < 1,000,000, and v for every other number.
C2_PopulationBands ==
    NormalizedNumber("Population") =>
        IF InUpperBand(args.value) THEN ScaledBy(args.value, 2, ret)
        ELSE IF InLowerBand(args.value) THEN ScaledBy(args.value, 1, ret)
        ELSE ret = args.value

\* Population 100.101 has been normalised to 100,101,000.
C2_Witness ==
    /\ NormalizedNumber("Population")
    /\ args.value = Num(FALSE, <<101, 100>>)
    /\ ret = Num(FALSE, <<0, 0, 101, 100>>)

\* v is one of the band boundaries 0.1, 1000, 1,000,000
AtBoundary(v) ==
    /\ ~v.neg
    /\ v.mag \in {<<100>>, <<0, 0, 1>>, <<0, 0, 0, 1>>}

\* v <= 0.1 (negative numbers included) or v >= 1,000,000
OutsideBands(v) ==
    \/ v.neg
    \/ Len(v.mag) = 0
    \/ Len(v.mag) = 1 /\ v.mag[1] <= 100
    \/ Len(v.mag) >= 4

\* C3 as stated: for GDP and Population a value at a band boundary (0.1, 1000
\* or 1,000,000) or outside all bands is returned unscaled.
C3_BoundaryUnscaled ==
    (/\ pc = "done"
     /\ args.indicatorName \in {"GDP", "Population"}
     /\ typeof(args.value) = "number"
     /\ (AtBoundary(args.value) \/ OutsideBands(args.value)))
    => ret = args.value

\* C3 amended: for GDP and Population a value at the boundary 0.1 or 1,000,000
\* or outside all bands is returned unscaled, while the boundary 1000 belongs
\* to the lower band and is scaled by 10^9 (GDP) or 10^3 (Population).
C3_BoundaryAmended ==
    (/\ pc = "done"
     /\ args.indicatorName \in {"GDP", "Population"}
     /\ typeof(args.value) = "number")
    => /\ OutsideBands(args.value) => ret = args.value
       /\ args.value = Num(FALSE, <<0, 0, 1>>) =>
             ret = Num(FALSE, (IF args.indicatorName = "GDP"
                               THEN <<0, 0, 0>> ELSE <<0>>) \o <<0, 0, 1>>)

\* Population 0.1 has been returned as 0.1.
C3_Witness ==
    /\ NormalizedNumber("Population")
    /\ args.value = Num(FALSE, <<100>>)
    /\ ret = args.value

(***************************************************************************)
(* Properties of formatNumber                                              *)
(***************************************************************************)
\* |v| > 10^(3k), read off the limbs of v
AbsAbove(v, k) ==
    \/ Len(v.mag) > k + 2
    \/ Len(v.mag) = k + 2 /\ v.mag # Zeros(k + 1) \o <<1>>

\* The number of limbs the formatter is expected to divide by.
ExpectedScale(v) ==
    IF AbsAbove(v, 4) THEN 4
    ELSE IF AbsAbove(v, 3) THEN 3
    ELSE IF AbsAbove(v, 2) THEN 2
    ELSE IF AbsAbove(v, 1) THEN 1
    ELSE 0

SuffixOfScale(k) ==
    CASE k = 4 -> " T" [] k = 3 -> " B" [] k = 2 -> " M" [] k = 1 -> " K"
      [] k = 0 -> ""

\* The magnitude suffix a formatted string ends with, "" when it has none.
Suffix(str) ==
    IF Len(str) >= 2 /\ SubSeq(str, Len(str) - 1, Len(str)) \in {" T", " B", " M", " K"}
    THEN SubSeq(str, Len(str) - 1, Len(str))
    ELSE ""

Negated(v) == IF v.mag = <<>> THEN v ELSE Num(~v.neg, v.mag)

FormattedNumber(type) ==
    pc = "done" /\ typeof(args.value) = "number" /\ args.type = type

\* C4: in magnitude mode the suffix follows |v| with strict thresholds, largest
\* first: above 10^12 v/10^12 and " T", else above 10^9 v/10^9 and " B", else
\* above 10^6 v/10^6 and " M", else above 10^3 v/10^3 and " K", else no suffix;
\* a value equal to a threshold takes the next lower branch, and v and -v get
\* the same suffix.
C4_MagnitudeSuffix ==
    FormattedNumber("number") =>
        LET k == ExpectedScale(args.value) IN
        /\ Suffix(ret.s) = SuffixOfScale(k)
        /\ k > 0 => ret.s = toFixed2(args.value, k) \o SuffixOfScale(k)
        /\ Suffix(formatNumber(Negated(args.value), "number")) = Suffix(ret.s)
        /\ \A j \in 1..4 :
              args.value.mag = Zeros(j + 1) \o <<1>> =>
                  Suffix(ret.s) = SuffixOfScale(j - 1)

\* Exactly 10^12 has been formatted in the billions branch.
C4_Witness ==
    /\ FormattedNumber("number")
    /\ args.value = Num(FALSE, <<0, 0, 0, 0, 0, 1>>)
    /\ ret = Str("1000.00 B")

\* The digits of a number with at most two decimals, written out plainly.
PlainTwoDecimals(v) ==
    (IF v.neg THEN "-" ELSE "")
    \o IntString(IF Len(v.mag) >= 2 THEN Tail(v.mag) ELSE <<>>, "")
    \o "." \o Pad2(Limb(v.mag, 1) \div 10)

\* C5: an Inflation Rate value passes normalisation unchanged and is displayed
\* in percentage mode as the value itself with exactly two decimal digits and
\* "%", a negative value keeping its minus sign; 3.79 is displayed as "3.79%".
C5_InflationPercentage ==
    (/\ FormattedNumber("percentage")
     /\ args.indicatorName = "Inflation Rate"
     /\ args.use = "cell") =>
        /\ args.value = args.raw
        /\ ret.s = toFixed2(args.raw, 0) \o "%"
        /\ Limb(args.raw.mag, 1) % 10 = 0 =>
              ret.s = PlainTwoDecimals(args.raw) \o "%"
        /\ SubSeq(ret.s, 1, 1) = "-" <=> args.raw.neg
        /\ SubSeq(ret.s, Len(ret.s) - 3, Len(ret.s) - 3) = "."
        /\ args.raw = Infl379 => ret = Str("3.79%")

\* Inflation Rate 3.79 has been displayed.
C5_Witness ==
    /\ FormattedNumber("percentage")
    /\ args.indicatorName = "Inflation Rate"
    /\ args.use = "cell"
    /\ args.raw = Infl379
    /\ ret = Str("3.79%")

(***************************************************************************)
(* Properties of extractValue                                              *)
(***************************************************************************)
IsRecord(d) == typeof(d) = "object"

\* The index of the first record whose Category is exactly the label, else 0.
FirstMatchIndex(items, name) ==
    LET hits == {i \in 1..Len(items) :
                    IsRecord(items[i]) /\ items[i].Category = Str(name)}
    IN  IF hits = {} THEN 0
        ELSE CHOOSE i \in hits : \A j \in hits : i <= j

IsSet(f) == f # Undefined /\ f # Null

\* The first of LatestValue, LastValue, Value that is present and non-null.
ExpectedField(item) ==
    LET present == SelectSeq(<<item.LatestValue, item.LastValue, item.Value>>, IsSet)
    IN  IF present = <<>> THEN NA ELSE Head(present)

Extracted ==
    pc = "done" /\ IsArray(args.data) /\ Len(args.data.items) > 0

\* C6 as stated: the value of a matched record is chosen by the priority
\* LatestValue, LastValue, Value, Unavailable when none is set, and extract
\* returns that value exactly.
C6_FieldPriorityExact ==
    Extracted =>
        LET i == FirstMatchIndex(args.data.items, args.indicatorName) IN
        i > 0 => ret = ExpectedField(args.data.items[i])

\* C6 amended: the value of a matched record is chosen by the priority
\* LatestValue, LastValue, Value, Unavailable when none is set; extractValue
\* returns the chosen value after normalizeValue when it is a number (so
\* exactly for Inflation Rate and for values outside the bands), and as it is
\* otherwise; a present LatestValue is the one chosen whatever LastValue and
\* Value hold.
C6_FieldPriorityNormalized ==
    Extracted =>
        LET i == FirstMatchIndex(args.data.items, args.indicatorName) IN
        i > 0 =>
            LET item   == args.data.items[i]
                chosen == ExpectedField(item)
            IN  /\ IsSet(item.LatestValue) => chosen = item.LatestValue
                /\ typeof(chosen) = "number" =>
                      ret = normalizeValue(chosen, args.indicatorName)
                /\ typeof(chosen) # "number" => ret = chosen
                /\ (typeof(chosen) = "number"
                    /\ (args.indicatorName = "Inflation Rate" \/ OutsideBands(chosen)))
                      => ret = chosen

\* A GDP record with all three fields set has yielded its LatestValue 1.5,
\* normalised to 1.5 * 10^12.
C6_Witness ==
    /\ Extracted
    /\ args.indicatorName = "GDP"
    /\ args.data.items[1] = Obj(Str("GDP"), Lat15, Last2000, Zero)
    /\ ret = Num(FALSE, <<0, 0, 0, 0, 500, 1>>)

\* What extractValue makes of one record.
RecordOutcome(item, name) ==
    IF typeof(selectValue(item)) = "number"
    THEN normalizeValue(selectValue(item), name)
    ELSE selectValue(item)

\* C7: a record is selected only when its Category equals the label exactly
\* (case-sensitive); of several such records the first in input order gives
\* the value; with no such record the result is Unavailable.
C7_ExactFirstMatch ==
    Extracted =>
        LET i == FirstMatchIndex(args.data.items, args.indicatorName) IN
        /\ i = 0 => ret = NA
        /\ i > 0 => ret = RecordOutcome(args.data.items[i], args.indicatorName)

\* Two GDP records with different values: the first has given the result.
C7_Witness ==
    /\ Extracted
    /\ args.indicatorName = "GDP"
    /\ Len(args.data.items) = 2
    /\ args.data.items[1].t = "object" /\ args.data.items[1].Category = Str("GDP")
    /\ args.data.items[2].t = "object" /\ args.data.items[2].Category = Str("GDP")
    /\ RecordOutcome(args.data.items[1], "GDP") # RecordOutcome(args.data.items[2], "GDP")
    /\ ret = RecordOutcome(args.data.items[1], "GDP")

\* The entries of a list that are not null.
NonNull(items) == SelectSeq(items, Truthy)

Unavailable == [text |-> "N/A", class |-> "", value |-> Null]

\* C9: when either value is Unavailable the comparator returns the text "N/A",
\* no colour class and no numeric difference, whatever the other value is.
C9_UnavailableDifference ==
    (pc = "done" /\ (args.val1 = NA \/ args.val2 = NA)) => ret = Unavailable

\* A number has been compared with an Unavailable second value.
C9_Witness ==
    /\ pc = "done"
    /\ typeof(args.val1) = "number" /\ args.val1 # Zero
    /\ args.val2 = NA
    /\ ret = Unavailable

BothNumbers == typeof(args.val1) = "number" /\ typeof(args.val2) = "number"

\* C10 as stated: the direction tag is higher (green) for a - b > 0, lower
\* (orange) for a - b < 0, equal for a - b = 0 and undefined only for an
\* Unavailable value, and the tag of equal differs from the tag of undefined.
C10_FourDirections ==
    pc = "done" =>
        /\ ~BothNumbers => ret.class = Unavailable.class
        /\ BothNumbers =>
              /\ Cmp(args.val1, args.val2) = 1 => ret.class = "positive-diff"
              /\ Cmp(args.val1, args.val2) = -1 => ret.class = "negative-diff"
              /\ Cmp(args.val1, args.val2) = 0 =>
                    ret.class \notin {"positive-diff", "negative-diff",
                                      Unavailable.class}

\* C10 amended: for two available values the comparator computes a - b and
\* tags it positive-diff (green) when a - b > 0 and negative-diff (orange) when
\* a - b < 0; for a - b = 0 the tag is empty, the same tag as for an Unavailable
\* value, and the two outcomes differ only in the numeric difference (0 against
\* null) and in the text.
C10_ThreeClasses ==
    pc = "done" =>
        /\ ~BothNumbers => ret = Unavailable
        /\ BothNumbers =>
              /\ typeof(ret.value) = "number"
              /\ Minus(args.val1, ret.value) = args.val2
              /\ Cmp(args.val1, args.val2) = 1 =>
                    ret.class = "positive-diff" /\ Gt(ret.value, Zero)
              /\ Cmp(args.val1, args.val2) = -1 =>
                    ret.class = "negative-diff" /\ Lt(ret.value, Zero)
              /\ Cmp(args.val1, args.val2) = 0 =>
                    /\ ret.class = Unavailable.class
                    /\ ret.value = Zero
                    /\ ret.text # Unavailable.text

\* Two equal non-zero values have been compared.
C10_Witness ==
    /\ pc = "done"
    /\ BothNumbers
    /\ args.val1 = args.val2 /\ args.val1 # Zero
    /\ ret.class = "" /\ ret.value = Zero

(***************************************************************************)
(* Text of a difference                                                    *)
(***************************************************************************)
\* The first character of a text
FirstChar(text) == SubSeq(text, 1, 1)

Digits == {"0", "1", "2", "3", "4", "5", "6", "7", "8", "9"}

\* C11: the text of the difference of two numeric values is formatNumber's
\* rendering of diff = val1 - val2 in the row's format, with a "+" in front
\* if and only if val1 is above val2; below, the text starts with the minus
\* sign of formatNumber; when equal it is the rendering of 0, without a sign.
C11_DifferenceText ==
    pc = "done" /\ BothNumbers =>
        LET order == Cmp(args.val1, args.val2)
            rendering == formatNumber(ret.value, args.formatType)
        IN  /\ ret.value = Minus(args.val1, args.val2)
            /\ order = 1 =>
                  /\ ret.text = "+" \o rendering
                  /\ FirstChar(rendering) \in Digits
            /\ order = -1 =>
                  /\ ret.text = rendering
                  /\ FirstChar(rendering) = "-"
                  /\ FirstChar(SubSeq(rendering, 2, Len(rendering))) \in Digits
            /\ order = 0 =>
                  /\ ret.text = formatNumber(Zero, args.formatType)
                  /\ FirstChar(ret.text) = "0"

C11_Witness ==
    /\ pc = "done"
    /\ BothNumbers
    /\ Cmp(args.val1, args.val2) = 1
    /\ args.formatType = "number"
    /\ ret.text = "+2.00 T"

(***************************************************************************)
(* Totality of formatNumber                                                *)
(***************************************************************************)
\* The string conversion of the sampled values that are neither a number,
\* nor null, nor undefined.
Converted(value) ==
    IF value = Bool(TRUE) THEN "true"
    ELSE IF value = Bool(FALSE) THEN "false"
    ELSE IF value = EmptyObject THEN "[object Object]"
    ELSE value.s

C15_UnavailableFixed ==
    pc = "done" /\ args.value = NA => ret = NA

C15_Witness ==
    /\ pc = "done"
    /\ args.value = NA
    /\ args.indicatorName = "Population"
    /\ ret = NA

(***************************************************************************)
(* Properties of the rows of a comparison                                  *)
(***************************************************************************)
Processed == pc \in {"processed", "done"}

IndicatorNames_Ordered == <<"GDP", "Population", "Inflation Rate">>

\* C12: for every pair of inputs, an empty list, null and a partial list
\* included, processComparisonData returns exactly three rows, GDP,
\* Population, Inflation Rate in this order, with the formats number, number,
\* percentage.
C12_ThreeRows ==
    Processed =>
        /\ Len(ret.indicators) = 3
        /\ [i \in 1..3 |-> ret.indicators[i].name]
              = <<"GDP", "Population", "Inflation Rate">>
        /\ [i \in 1..3 |-> ret.indicators[i].format]
              = <<"number", "number", "percentage">>

C12_Witness ==
    /\ pc = "processed"
    /\ args.data1 = Null
    /\ args.data2 = Arr(<<Obj(Str("Inflation Rate"), Infl379, Lat15, Last2000)>>)
    /\ Len(ret.indicators) = 3
    /\ ret.indicators[1].country1 = NA /\ ret.indicators[1].country2 = NA
    /\ ret.indicators[3].country2 = Infl379

\* C14 as stated: each country value of a produced row is a number or
\* "N/A", never a value of a third kind such as a string of the record.
C14_NumberOrUnavailable ==
    Processed =>
        \A i \in 1..Len(ret.indicators) :
            /\ typeof(ret.indicators[i].country1) = "number"
                  \/ ret.indicators[i].country1 = NA
            /\ typeof(ret.indicators[i].country2) = "number"
                  \/ ret.indicators[i].country2 = NA

\* The value selected from the first record of the indicator in a response
\* that is a list of records, Undefined when there is none.
Selected(data, name) ==
    IF ~IsArray(data) THEN Undefined
    ELSE LET i == FirstMatchIndex(data.items, name) IN
         IF i = 0 THEN Undefined ELSE ExpectedField(data.items[i])

RenderedZero(type) == IF type = "percentage" THEN "0.00%" ELSE "0.00"

\* The style of the difference cell for val1 against val2.
StyleOf(val1, val2) ==
    CASE Cmp(val1, val2) = 1 -> "color: #0b7e4b; font-weight: bold;"
      [] Cmp(val1, val2) = -1 -> "color: #b45309; font-weight: bold;"
      [] OTHER -> ""

\* C16: a matched record whose selected value is the number 0 gives the row
\* the value 0, which is displayed as the number 0 and not as "N/A", and
\* which takes part in the difference: against a number of the other country
\* the difference cell holds a rendered number, styled by the order of the
\* two values.
C16_ZeroIsNumber ==
    pc = "done" =>
        \A i \in 1..Len(ret.indicators) :
            LET row  == ret.indicators[i]
                cell == ret.html.body[i]
            IN  /\ Selected(args.data1, row.name) = Zero =>
                      /\ row.country1 = Zero
                      /\ cell.formatted1 = RenderedZero(row.format)
                      /\ typeof(row.country2) = "number" =>
                            /\ cell.difference # "N/A"
                            /\ cell.style = StyleOf(Zero, row.country2)
                /\ Selected(args.data2, row.name) = Zero =>
                      /\ row.country2 = Zero
                      /\ cell.formatted2 = RenderedZero(row.format)
                      /\ typeof(row.country1) = "number" =>
                            /\ cell.difference # "N/A"
                            /\ cell.style = StyleOf(row.country1, Zero)

C16_Witness ==
    /\ pc = "done"
    /\ Selected(args.data1, "GDP") = Zero
    /\ Selected(args.data2, "GDP") = Lat15
    /\ ret.html.body[1].formatted1 = "0.00"
    /\ ret.html.body[1].difference = "-1.50 T"
    /\ ret.html.body[1].style = "color: #b45309; font-weight: bold;"

\* A non-empty list of records
Fetched(data) == IsArray(data) /\ Len(data.items) > 0

\* The list holds no record of the indicator.
Missing(data, name) == Fetched(data) /\ FirstMatchIndex(data.items, name) = 0

\* A record of the indicator, as the API would have sent it.
Present(name) == Obj(Str(name), Infl379, Lat15, Last2000)

With(data, name) == Arr(data.items \o <<Present(name)>>)

\* The rows of the table for the two responses.
Body(data1, data2) ==
    [i \in 1..3 |-> tableRow(processComparisonData(data1, data2)[i])]

\* C18: when both responses are non-empty lists and one of them has no
\* record of an indicator, the table has its three rows; the cell of the
\* missing value and the difference of its row show "N/A", and every other
\* row is the row the table would have had with a record of the indicator
\* in the response.
C18_MissingIndicator ==
    (pc = "done" /\ Fetched(args.data1) /\ Fetched(args.data2)) =>
        /\ Len(ret.html.body) = 3
        /\ \A k \in 1..3 :
              LET name == ret.html.body[k].name IN
              /\ Missing(args.data1, name) =>
                    /\ ret.html.body[k].formatted1 = "N/A"
                    /\ ret.html.body[k].difference = "N/A"
                    /\ \A j \in (1..3) \ {k} :
                          ret.html.body[j]
                            = Body(With(args.data1, name), args.data2)[j]
              /\ Missing(args.data2, name) =>
                    /\ ret.html.body[k].formatted2 = "N/A"
                    /\ ret.html.body[k].difference = "N/A"
                    /\ \A j \in (1..3) \ {k} :
                          ret.html.body[j]
                            = Body(args.data1, With(args.data2, name))[j]

C18_Witness ==
    /\ pc = "done"
    /\ Fetched(args.data1) /\ Fetched(args.data2)
    /\ Missing(args.data1, "Population")
    /\ ~Missing(args.data1, "GDP") /\ ~Missing(args.data1, "Inflation Rate")
    /\ \A k \in 1..3 : ~Missing(args.data2, IndicatorNames_Ordered[k])
    /\ ret.html.body[2].formatted1 = "N/A"
    /\ ret.html.body[2].formatted2 = "2.00 M"
    /\ ret.html.body[2].difference = "N/A"
    /\ ret.html.body[1].difference # "N/A"

(***************************************************************************)
(* Properties of compareCountries                                          *)
(***************************************************************************)
\* Invocation i of compareCountries runs from its await to its end.
Finishes(i) == calls[i].pc = "await" /\ calls'[i].pc = "done"

FailedFetch(i) == calls[i].data1 = Null \/ calls[i].data2 = Null

\* C17 as stated: when the fetch of a country fails the comparison still
\* produces its rows, as for a country without records: the table is shown,
\* with "N/A" as that country's value of every indicator.
C17_FailureAsNoRecords ==
    [][\A i \in 1..Len(calls) :
          (Finishes(i) /\ FailedFetch(i)) =>
              /\ resultsContainer'.t = "table"
              /\ resultsContainer' =
                    tableHtml(processComparisonData(calls[i].data1, calls[i].data2),
                              calls[i].country1, calls[i].country2)]_vars

\* C17 amended: when the fetch of a country fails, compareCountries shows
\* the "Failed to retrieve economic data" error in place of the table and
\* empties the timestamp, an outcome of its own; when both fetches succeed
\* the table is shown, and a country without a record of an indicator has
\* "N/A" in that row.
C17_FailureIsError ==
    [][\A i \in 1..Len(calls) :
          Finishes(i) =>
              /\ FailedFetch(i) =>
                    /\ resultsContainer'.t = "error"
                    /\ resultsContainer'.title = "Failed to retrieve economic data"
                    /\ timestampContainer' = ""
              /\ ~FailedFetch(i) =>
                    /\ resultsContainer'.t = "table"
                    /\ Len(resultsContainer'.body) = 3
                    /\ \A k \in 1..3 :
                          /\ Missing(calls[i].data1, IndicatorNames_Ordered[k])
                                => resultsContainer'.body[k].formatted1 = "N/A"
                          /\ Missing(calls[i].data2, IndicatorNames_Ordered[k])
                                => resultsContainer'.body[k].formatted2 = "N/A"]_vars

C17_Witness ==
    /\ resultsContainer.t = "error"
    /\ resultsContainer.title = "Failed to retrieve economic data"
    /\ timestampContainer = ""
    /\ ~isLoading
    /\ clicks = 1
    /\ calls = <<[pc |-> "done"]>>

\* The invocations that are past the guard and not finished.
InFlight == {i \in 1..Len(calls) : calls[i].pc = "await"}

Click == clicks' = clicks + 1

\* C19: at most one invocation of compareCountries is past the guard at any
\* time, and a Compare click made while isLoading is true starts no fetch
\* and changes neither isLoading nor the results container.
C19_SingleFlight ==
    /\ [](Cardinality(InFlight) <= 1)
    /\ [][(Click /\ isLoading) =>
             /\ calls' = calls
             /\ isLoading'
             /\ resultsContainer' = resultsContainer]_vars

C19_Witness ==
    /\ isLoading
    /\ clicks = 2
    /\ alerted = ""
    /\ Len(calls) = 1
    /\ calls[1].pc = "await"

\* C20: a Compare click with the same country in both dropdowns, or with an
\* empty dropdown, raises an alert and does nothing else: no fetch is
\* started, isLoading keeps its value and the results and timestamp
\* containers keep their content.
C20_RejectedClick ==
    [][(Click /\ (country1Select = "" \/ country2Select = ""
                  \/ country1Select = country2Select)) =>
          /\ alerted' # ""
          /\ calls' = calls
          /\ isLoading' = isLoading
          /\ resultsContainer' = resultsContainer
          /\ timestampContainer' = timestampContainer]_vars

C20_Witness ==
    /\ alerted = "Please select two different countries to compare."
    /\ country1Select = country2Select
    /\ clicks = 1
    /\ calls = <<>>
    /\ ~isLoading
    /\ resultsContainer = [t |-> "initial"]

(***************************************************************************)
(* Properties of fetchCountryData                                          *)
(***************************************************************************)
\* The response is OK and its body is JSON for a list of at least one entry.
GoodResponse(response) ==
    /\ response.kind = "response"
    /\ response.ok
    /\ typeof(response.body) = "array"
    /\ response.body.items # <<>>

\* C21: the promise of fetchCountryData is always fulfilled: with the list
\* of the body when the response is OK and its body is a non-empty list, and
\* with null in every other case (network error, HTTP error status, body
\* that is not JSON, body that is not a list, empty list).
C21_FetchResolves ==
    pc = "done" =>
        /\ GoodResponse(args.response) =>
              ret = args.response.body /\ Len(ret.items) > 0
        /\ ~GoodResponse(args.response) => ret = Null

C21_Witness ==
    /\ pc = "done"
    /\ args.response = Response(TRUE, Arr(<<>>))
    /\ ret = Null

(***************************************************************************)
(* Symmetry of the comparison                                              *)
(***************************************************************************)
SwappedClass(class) ==
    CASE class = "positive-diff" -> "negative-diff"
      [] class = "negative-diff" -> "positive-diff"
      [] OTHER -> class

\* The text of b - a, given the text of a - b.
SwappedText(text) ==
    IF FirstChar(text) = "+" THEN "-" \o SubSeq(text, 2, Len(text))
    ELSE IF FirstChar(text) = "-" THEN "+" \o SubSeq(text, 2, Len(text))
    ELSE text

\* C22: the value of a country in a row depends on the records of that
\* country and the indicator only; with the two lists swapped, the two
\* values of every row are swapped and every difference a - b becomes b - a
\* (higher becomes lower and lower higher, equal and undefined stay);
\* the same call gives the same rows and strings again.
C22_NoOrderDependency ==
    Processed =>
        LET swapped == processComparisonData(args.data2, args.data1) IN
        /\ ret.indicators = processComparisonData(args.data1, args.data2)
        /\ \A k \in 1..Len(ret.indicators) :
              LET row  == ret.indicators[k]
                  diff == calculateDifference(row.country1, row.country2, row.format)
                  back == calculateDifference(swapped[k].country1,
                                              swapped[k].country2, swapped[k].format)
              IN  /\ row.country1 = extractValue(args.data1, row.name)
                  /\ row.country2 = extractValue(args.data2, row.name)
                  /\ swapped[k].country1 = row.country2
                  /\ swapped[k].country2 = row.country1
                  /\ back.class = SwappedClass(diff.class)
                  /\ back.text = SwappedText(diff.text)
                  /\ typeof(diff.value) = "number" => back.value = Negated(diff.value)
                  /\ diff.value = Null => back.value = Null
                  /\ pc = "done" =>
                        /\ tableRow(swapped[k]).formatted1 = ret.html.body[k].formatted2
                        /\ tableRow(swapped[k]).formatted2 = ret.html.body[k].formatted1
                        /\ ret.html.body[k] = tableRow(row)

C22_Witness ==
    /\ pc = "done"
    /\ ret.html.body[1].difference = "+1.50 T"
    /\ ret.html.body[1].formatted2 = "0.00"
    /\ tableRow(processComparisonData(args.data2, args.data1)[1]).difference = "-1.50 T"
    /\ ret.html.body[2].difference = "N/A"

(***************************************************************************)
(* The documented examples                                                 *)
(***************************************************************************)
Cell(raw, name) ==
    pc = "done" /\ args.use = "cell" /\ args.raw = raw /\ args.indicatorName = name

\* C23: the raw GDP 1852.72 is normalised to 1.85272 * 10^12 and displayed
\* as "1.85 T"; the raw Population 130.86 is normalised to 130,860,000 and
\* displayed as "130.86 M".
C23_DocumentedExamples ==
    /\ Cell(Gdp185272, "GDP") =>
          /\ args.value = Num(FALSE, <<0, 0, 0, 720, 852, 1>>)
          /\ ret.s = "1.85 T"
    /\ Cell(Pop13086, "Population") =>
          /\ args.value = Num(FALSE, <<0, 0, 860, 130>>)
          /\ ret.s = "130.86 M"

C23_Witness ==
    /\ Cell(Gdp185272, "GDP")
    /\ ret = Str("1.85 T")

(***************************************************************************)
(* isLoading is reset                                                      *)
(***************************************************************************)
Selectable == country1Select # "" /\ country2Select # "" /\ country1Select # country2Select

Starts(i) == Len(calls) = i - 1 /\ Len(calls') = i

\* What the promise for a country can have resolved to.
ResolvedFor(country) == {Null, DataOf(country)}

\* C25: the two fetches are started in the same step; nothing is processed
\* or rendered before both have settled, whichever settles first; data1 is
\* the result for the first selected country and data2 the result for the
\* second, and what is shown is determined by these two results.
C25_BothFetches ==
    /\ [][\A i \in 1..Len(calls') :
             /\ Starts(i) =>
                   /\ calls'[i].data1 = Pending /\ calls'[i].data2 = Pending
                   /\ calls'[i].country1 = country1Select
                   /\ calls'[i].country2 = country2Select
             /\ (i <= Len(calls) /\ Finishes(i)) =>
                   /\ calls[i].data1 \in ResolvedFor(calls[i].country1)
                   /\ calls[i].data2 \in ResolvedFor(calls[i].country2)
                   /\ resultsContainer' =
                         shown(calls[i].data1, calls[i].data2,
                               calls[i].country1, calls[i].country2).results]_vars
    /\ [](\A i \in InFlight :
             /\ resultsContainer.t = "loading"
             /\ calls[i].data1 \in {Pending} \cup ResolvedFor(calls[i].country1)
             /\ calls[i].data2 \in {Pending} \cup ResolvedFor(calls[i].country2))

C25_Witness ==
    /\ Len(calls) = 1
    /\ calls[1].pc = "await"
    /\ calls[1].country1 = "mexico" /\ calls[1].country2 = "sweden"
    /\ calls[1].data1 = Pending
    /\ calls[1].data2 = PartialData
    /\ resultsContainer.t = "loading"

(***************************************************************************)
(* A failed fetch                                                          *)
(***************************************************************************)
\* C26: when one of the two fetches resolved to null, compareCountries shows
\* the "Failed to retrieve economic data" error, shows no table (not even
\* for the country whose fetch succeeded), leaves the timestamp empty and
\* resets isLoading.
C26_FailedFetchShown ==
    [][\A i \in 1..Len(calls) :
          (Finishes(i) /\ FailedFetch(i)) =>
              /\ resultsContainer' =
                    [t |-> "error",
                     title |-> "Failed to retrieve economic data",
                     message |-> "The API proxy may be rate-limited. Please wait a few seconds and try again.",
                     type |-> "error"]
              /\ timestampContainer' = ""
              /\ isLoading' = FALSE]_vars

C26_Witness ==
    /\ clicks = 2
    /\ calls = <<[pc |-> "done"], [pc |-> "done"]>>
    /\ resultsContainer.t = "error"
    /\ resultsContainer.title = "Failed to retrieve economic data"
    /\ resultsContainer.type = "error"
    /\ timestampContainer = ""
    /\ isLoading = FALSE

(***************************************************************************)
(* The spinner                                                             *)
(***************************************************************************)
\* C27: in every state between two steps of the script, the results
\* container shows the loading spinner exactly when isLoading is true.
C27_SpinnerIffLoading ==
    (resultsContainer.t = "loading") <=> isLoading

C27_Witness ==
    /\ isLoading
    /\ resultsContainer =
          [t |-> "loading", text |-> "Retrieving Mexico and New Zealand"]
    /\ timestampContainer = ""
    /\ calls[Len(calls)].data1 = FullData

(***************************************************************************)
(* Order of the normalised values                                          *)
(***************************************************************************)
\* Two raw numbers of GDP or of Population, the first above the second.
RawAbove ==
    /\ pc = "done"
    /\ args.indicatorName \in {"GDP", "Population"}
    /\ typeof(args.raw1) = "number" /\ typeof(args.raw2) = "number"
    /\ Cmp(args.raw1, args.raw2) = 1

\* The two raw values are scaled by the same factor.
SameBand(a, b) ==
    \/ InUpperBand(a) /\ InUpperBand(b)
    \/ InLowerBand(a) /\ InLowerBand(b)
    \/ OutsideBands(a) /\ OutsideBands(b)

\* C28 as stated: for any two raw values a > b of GDP, or of Population,
\* normalizeValue(a) > normalizeValue(b), and the comparison reports the
\* first country as higher.
C28_OrderPreserved ==
    RawAbove =>
        /\ Cmp(args.val1, args.val2) = 1
        /\ ret.class = "positive-diff"

\* C28 amended: the order is kept for two raw values that fall in the same
\* band, so that both are scaled by the same factor or both left as they
\* are; the comparison then reports the first country as higher.
C28_OrderPreservedInBand ==
    (RawAbove /\ SameBand(args.raw1, args.raw2)) =>
        /\ Cmp(args.val1, args.val2) = 1
        /\ ret.class = "positive-diff"
        /\ FirstChar(ret.text) = "+"

C28_Witness ==
    /\ RawAbove
    /\ args.indicatorName = "GDP"
    /\ InUpperBand(args.raw1) /\ InUpperBand(args.raw2)
    /\ args.raw1 = Num(FALSE, <<0, 999>>)
    /\ args.raw2 = Num(FALSE, <<101, 1>>)
    /\ ret.class = "positive-diff"

(***************************************************************************)
(* The "No data available" branch                                          *)
(***************************************************************************)
\* C29: the "No data available" warning is never shown: a fetch result that
\* is not null is a list of at least one record, so the test of the lengths
\* in compareCountries never succeeds.
C29_NoDataUnreachable ==
    /\ resultsContainer # noDataWarning.results
    /\ resultsContainer.t = "error" => resultsContainer.title # "No data available"
    /\ \A i \in InFlight :
          /\ calls[i].data1 \notin {Pending, Null} => Len(calls[i].data1.items) > 0
          /\ calls[i].data2 \notin {Pending, Null} => Len(calls[i].data2.items) > 0

C29_Witness ==
    /\ clicks = 1
    /\ calls = <<[pc |-> "done"]>>
    /\ resultsContainer.t = "table"
    /\ Len(resultsContainer.body) = 3
    /\ timestampContainer = retrievedHtml
    /\ isLoading = FALSE

(***************************************************************************)
(* The percentage of script.js v1.0                                        *)
(***************************************************************************)
\* r = 100 * v, by additions: 100 v = 64 v + 32 v + 4 v
Hundredfold(v, r) ==
    LET v2  == AddMag(v.mag, v.mag)
        v4  == AddMag(v2, v2)
        v8  == AddMag(v4, v4)
        v16 == AddMag(v8, v8)
        v32 == AddMag(v16, v16)
        v64 == AddMag(v32, v32)
    IN  r.neg = v.neg /\ r.mag = AddMag(AddMag(v64, v32), v4)

\* C30: the v1.0 formatNumber renders a number in percentage mode as
\* value * 100 with two decimal digits and "%", so 0.05 gives "5.00%"; the
\* raw value 3.79 is rendered "379.00%", and "3.79%" by the v2.4 formatter.
C30_PercentageV1 ==
    /\ (pc \in {"v1", "done"} /\ args.type = "percentage"
        /\ typeof(args.value) = "number") =>
          /\ \E r \in {Times(args.value, 100)} :
                /\ Hundredfold(args.value, r)
                /\ ret.v1 = formatNumber(r, "percentage")
          /\ args.value = Frac005 => ret.v1 = "5.00%"
          /\ args.value = Infl379 => ret.v1 = "379.00%"
    /\ (pc = "done" /\ args.type = "percentage" /\ args.value = Infl379) =>
          /\ ret.v24 = "3.79%"
          /\ ret.v24 # ret.v1

C30_Witness ==
    /\ pc = "done"
    /\ args.type = "percentage"
    /\ args.value = Infl379
    /\ ret.v1 = "379.00%"
    /\ ret.v24 = "3.79%"

====
